---- MODULE Spec2Model ----
(***************************************************************************)
(* A model of catalog_builder/catalog.py (PSLmodels/PSL): the command-line *)
(* pipeline  CatalogBuilder(...) ; load_catalog ; write_pages ;            *)
(* dump_catalog  run over a registry of project references, with the      *)
(* remote service (descriptor and file requests) as the environment.       *)
(*                                                                         *)
(* Python values:  a str is a TLA+ string; a value that may be None is     *)
(* tagged (None, Str(s)); a dict is the sequence of its <<key, value>>     *)
(* items in insertion order (keys distinct).                               *)
(***************************************************************************)
EXTENDS Integers, Sequences, FiniteSets, TLC

VARIABLES
    registry,    \* the projects argument / the list read from register.json
    files,       \* the files under index_dir: name -> content (absent = not in DOMAIN)
    pc,          \* position of the pipeline of the current invocation
    develop,     \* self.develop
    build_one,   \* the build_one argument
    projects,    \* self.projects
    catalog,     \* self.catalog
    repos,       \* self.repos
    order,       \* load_catalog: sorted(self.projects, key=...)
    i,           \* load_catalog: number of projects of order whose iteration began
    cat_meta,    \* load_catalog: the descriptor of the current project
    j,           \* load_catalog: index in cat_meta.items() of the next entry
    raised,      \* the exception that ended the invocation ("" = none)
    requests,    \* the remote requests issued by this invocation, with their outcome
    descs,       \* the descriptors received by this invocation, in order
    lastDumped   \* the catalog object given to the last dump_catalog that wrote the file

vars == <<registry, files, pc, develop, build_one, projects, catalog, repos,
          order, i, cat_meta, j, raised, requests, descs, lastDumped>>

-----------------------------------------------------------------------------
(* Bounds and input universes *)

MaxProjects == 2

Orgs == {"PSLmodels", "fork"}
Repos == {"alpha", "Beta"}
Branches == {"master"}
ProjectRefs == [org : Orgs, repo : Repos, branch : Branches]
Registries == UNION {[1..n -> ProjectRefs] : n \in 0..MaxProjects}

\* The characters of each repository name, as code points.
CodePoints ==
    [alpha |-> <<97, 108, 112, 104, 97>>,
     Beta  |-> <<66, 101, 116, 97>>]

-----------------------------------------------------------------------------
(* Python values *)

None == [none |-> TRUE]
Str(s) == [str |-> s]

\* dict: items in insertion order
Keys(d) == [k \in 1..Len(d) |-> d[k][1]]
KeySet(d) == {d[k][1] : k \in 1..Len(d)}
DictGet(d, key) == d[CHOOSE k \in 1..Len(d) : d[k][1] = key][2]
\* defaultdict(dict).__getitem__ : a missing key reads as the empty dict
DictGetDefault(d, key) == IF key \in KeySet(d) THEN DictGet(d, key) ELSE <<>>
DictSet_replace(d, key, v) == <<<<key, v>>>>
\* d[key] = v : an existing key keeps its place, a new key is appended
DictSet(d, key, v) ==
    IF key \in KeySet(d)
    THEN [k \in 1..Len(d) |-> IF d[k][1] = key THEN <<key, v>> ELSE d[k]]
    ELSE Append(d, <<key, v>>)
\* the mapping a dict denotes (Python's == on dicts ignores the order of items)
AsMap(d) == [key \in KeySet(d) |-> DictGet(d, key)]

-----------------------------------------------------------------------------
(* str.upper and the order of str, on code points *)

UpperChar(c) == IF c >= 97 /\ c <= 122 THEN c - 32 ELSE c
Upper(s) == [k \in 1..Len(s) |-> UpperChar(s[k])]

\* s < t for two strings: lexicographic on code points
StrLess(s, t) ==
    \E k \in 1..Len(t) :
        /\ k <= Len(s) + 1
        /\ \A m \in 1..(k - 1) : s[m] = t[m]
        /\ IF k > Len(s) THEN TRUE ELSE s[k] < t[k]
StrLeq(s, t) == ~StrLess(t, s)

SortKey_caseSensitive(project) == CodePoints[project.repo]
\* key=lambda x: x["repo"].upper()
SortKey(project) == Upper(CodePoints[project.repo])

\* sorted(): stable; x goes before the first element whose key is greater
InsertSorted(s, x) ==
    LET after == {k \in 1..Len(s) : StrLess(SortKey(x), SortKey(s[k]))}
        at == IF after = {} THEN Len(s) + 1
              ELSE CHOOSE k \in after : \A m \in after : k <= m
    IN  SubSeq(s, 1, at - 1) \o <<x>> \o SubSeq(s, at, Len(s))

RECURSIVE Sorted(_)
Sorted(s) ==
    IF s = <<>> THEN <<>>
    ELSE InsertSorted(Sorted(SubSeq(s, 1, Len(s) - 1)), s[Len(s)])

-----------------------------------------------------------------------------
(* Descriptors (PSL_catalog.json).  Every config holds the keys its branch  *)
(* of the resolver reads (type, source, data), so no KeyError arises.      *)

GithubFileConfig ==
    [type |-> "github_file", source |-> "README.md", data |-> None,
     start_header |-> "Overview", end_header |-> "Citing"]
HtmlConfig ==
    [type |-> "html", source |-> "inline", data |-> Str("<p>text</p>"),
     start_header |-> "", end_header |-> ""]
UnknownConfig ==
    [type |-> "pdf", source |-> "doc.pdf", data |-> None,
     start_header |-> "", end_header |-> ""]
Configs == {GithubFileConfig, HtmlConfig, UnknownConfig}
Absent == [absent |-> TRUE]

\* the attribute names a descriptor may hold, in the order of the document
AttrNames == <<"project_overview", "name">>
\* the configs a descriptor may give each of them: a documented attribute has
\* any of the configs; "name", which the builder sets itself, is given inline
AttrOptions == [project_overview |-> Configs, name |-> {HtmlConfig}]

\* json.loads of a descriptor: a dict attribute name -> config; every attribute
\* name is either absent or present with one of its configs
Descriptors ==
    {SelectSeq([k \in 1..Len(AttrNames) |-> <<AttrNames[k], f[k]>>],
               LAMBDA item : item[2] # Absent) :
        f \in {g \in [1..Len(AttrNames) -> Configs \cup {Absent}] :
                  \A k \in 1..Len(AttrNames) :
                      g[k] \in AttrOptions[AttrNames[k]] \cup {Absent}}}

\* what utils.get_from_github_api extracts from the fetched file
Section == "section text"

-----------------------------------------------------------------------------
(* CatalogBuilder *)

NoProject == 0
\* __init__: the first project of L whose repo is the requested name
FirstMatch(L, name) ==
    LET hits == {k \in 1..Len(L) : L[k].repo = name}
    IN  IF hits = {} THEN NoProject ELSE CHOOSE k \in hits : \A m \in hits : k <= m

BuildOne_keepAll(L, name) == L
\* __init__: self.projects after a match of build_one
BuildOne(L, name) == <<L[FirstMatch(L, name)]>>

RepoUrl_swapped(org, repo) == "https://github.com/" \o repo \o "/" \o org
\* repo_url.format(org, repo)
RepoUrl(org, repo) == "https://github.com/" \o org \o "/" \o repo

NameEntry_org(project) ==
    <<<<"value", Str(project.org)>>, <<"source", Str("")>>>>
\* the "name" attribute
NameEntry(project) ==
    <<<<"value", Str(project.repo)>>, <<"source", Str("")>>>>

Res_valueOnly(source, value) == <<<<"value", value>>>>
\* res = {"source": source, "value": value}
Res(source, value) == <<<<"source", source>>, <<"value", value>>>>

BlobUrl(project, config) ==
    "https://github.com/" \o project.org \o "/" \o project.repo \o "/blob/"
        \o project.branch \o "/" \o config.source

DescriptorRequest(project, ok) ==
    [org |-> project.org, repo |-> project.repo, branch |-> project.branch,
     path |-> "PSL_catalog.json", ok |-> ok]
FileRequest(project, config, ok) ==
    [org |-> project.org, repo |-> project.repo, branch |-> project.branch,
     path |-> config.source, ok |-> ok]

AttrNeedsRequest_html(config) == config.type \in {"github_file", "html"}
\* the branch of the resolver that calls utils.get_from_github_api
AttrNeedsRequest(config) == config.type = "github_file"

Resolve_elseHtml(project, config) ==
    IF config.type = "github_file" THEN Res(Str(BlobUrl(project, config)), Str(Section))
    ELSE Res(Str(config.source), config.data)
\* the resolved attribute of a config whose request (if any) succeeded
Resolve(project, config) ==
    IF config.type = "github_file" THEN Res(Str(BlobUrl(project, config)), Str(Section))
    ELSE IF config.type = "html" THEN Res(Str(config.source), config.data)
    ELSE Res(None, None)

\* self.catalog[repo][attr] = res
CatalogSet(cat, repo, attr, res) ==
    DictSet(cat, repo, DictSet(DictGetDefault(cat, repo), attr, res))

-----------------------------------------------------------------------------
(* json.dumps / json.load of the catalog, as a token text *)

Tok(kind, text) == <<kind, text>>

DumpLeaf_str(v) == IF v = None THEN <<Tok("str", "None")>> ELSE <<Tok("str", v.str)>>
\* None -> null, a str -> a quoted string
DumpLeaf(v) == IF v = None THEN <<Tok("null", "")>> ELSE <<Tok("str", v.str)>>

RECURSIVE JoinItems(_)
\* the items of an object, separated by commas
JoinItems(items) ==
    IF items = <<>> THEN <<>>
    ELSE IF Len(items) = 1 THEN items[1]
    ELSE items[1] \o <<Tok(",", "")>> \o JoinItems(Tail(items))

DumpObject(keys, bodies) ==
    <<Tok("{", "")>>
        \o JoinItems([k \in 1..Len(keys) |->
                        <<Tok("str", keys[k]), Tok(":", "")>> \o bodies[k]])
        \o <<Tok("}", "")>>

DumpRes(res) == DumpObject(Keys(res), [k \in 1..Len(res) |-> DumpLeaf(res[k][2])])
DumpAttrs(attrs) == DumpObject(Keys(attrs), [k \in 1..Len(attrs) |-> DumpRes(attrs[k][2])])
\* json.dumps(self.catalog, indent=4)
JsonDumps(cat) == DumpObject(Keys(cat), [k \in 1..Len(cat) |-> DumpAttrs(cat[k][2])])

RECURSIVE ParseValue(_, _)
RECURSIVE ParseMembers(_, _, _)
\* the value that starts at token p, and the position after it
ParseValue(toks, p) ==
    IF toks[p][1] = "{" THEN
        IF toks[p + 1][1] = "}" THEN [v |-> <<>>, next |-> p + 2]
        ELSE ParseMembers(toks, p + 1, <<>>)
    ELSE IF toks[p][1] = "null" THEN [v |-> None, next |-> p + 1]
    ELSE [v |-> Str(toks[p][2]), next |-> p + 1]
\* the members of an object from the key at token p on; a repeated key keeps the last value
ParseMembers(toks, p, acc) ==
    LET key == toks[p][2]
        val == ParseValue(toks, p + 2)
        d == DictSet(acc, key, val.v)
    IN  IF toks[val.next][1] = "," THEN ParseMembers(toks, val.next + 1, d)
        ELSE [v |-> d, next |-> val.next + 1]
\* json.load(f)
JsonLoads(toks) == ParseValue(toks, 1).v

\* utils.render_template(models_path, catalog=..., repos=...)
Render(cat, rps) == [catalog |-> cat, repos |-> rps]

-----------------------------------------------------------------------------
(* The pipeline *)

NoFiles == [name \in {} |-> <<>>]
WriteFile(fs, name, content) ==
    [n \in DOMAIN fs \cup {name} |-> IF n = name THEN content ELSE fs[n]]

Init ==
    /\ registry \in Registries
    /\ files = NoFiles
    /\ pc = "idle"
    /\ develop = FALSE
    /\ build_one = None
    /\ projects = <<>>
    /\ catalog = <<>>
    /\ repos = <<>>
    /\ order = <<>>
    /\ i = 0
    /\ cat_meta = <<>>
    /\ j = 1
    /\ raised = ""
    /\ requests = <<>>
    /\ descs = <<>>
    /\ lastDumped = <<>>

\* CatalogBuilder(develop=dev, build_one=b).  The catalog is built over the
\* network while index_dir holds no catalog.json; later invocations replay it.
Construct(dev, b) ==
    /\ pc = "idle"
    /\ dev \/ "catalog.json" \notin DOMAIN files
    /\ develop' = dev
    /\ build_one' = b
    /\ catalog' = <<>>
    /\ repos' = <<>>
    /\ IF b = None
       THEN /\ projects' = registry
            /\ pc' = "constructed"
            /\ raised' = ""
       ELSE IF FirstMatch(registry, b.str) # NoProject
       THEN /\ projects' = BuildOne(registry, b.str)
            /\ pc' = "constructed"
            /\ raised' = ""
       ELSE /\ projects' = registry
            /\ pc' = "aborted"
            /\ raised' = "ProjectDoesNotExist"
    /\ UNCHANGED <<registry, files, order, i, cat_meta, j, requests, descs, lastDumped>>

\* load_catalog, network mode: the iteration order is fixed on entry
LoadCatalogEnter ==
    /\ pc = "constructed"
    /\ ~develop
    /\ order' = Sorted(projects)
    /\ i' = 0
    /\ cat_meta' = <<>>
    /\ j' = 1
    /\ pc' = "load"
    /\ UNCHANGED <<registry, files, develop, build_one, projects, catalog, repos,
                   raised, requests, descs, lastDumped>>

AtProjectBoundary == pc = "load" /\ j > Len(cat_meta)

\* the descriptor request or json.loads raises: nothing catches it
FetchDescriptorFails_caught ==
    /\ AtProjectBoundary /\ i < Len(order)
    /\ requests' = Append(requests, DescriptorRequest(order[i + 1], FALSE))
    /\ i' = i + 1
    /\ cat_meta' = <<>>
    /\ j' = 1
    /\ UNCHANGED <<registry, files, pc, develop, build_one, projects, catalog, repos,
                   order, raised, descs, lastDumped>>
FetchDescriptorFails ==
    /\ AtProjectBoundary /\ i < Len(order)
    /\ requests' = Append(requests, DescriptorRequest(order[i + 1], FALSE))
    /\ pc' = "aborted"
    /\ raised' = "RequestError"
    /\ UNCHANGED <<registry, files, develop, build_one, projects, catalog, repos,
                   order, i, cat_meta, j, descs, lastDumped>>

\* the descriptor d arrives: the name attribute and the repo link are recorded
FetchDescriptorOk(d) ==
    /\ AtProjectBoundary /\ i < Len(order)
    /\ LET project == order[i + 1] IN
        /\ requests' = Append(requests, DescriptorRequest(project, TRUE))
        /\ catalog' = CatalogSet(catalog, project.repo, "name", NameEntry(project))
        /\ repos' = DictSet(repos, project.repo, RepoUrl(project.org, project.repo))
    /\ descs' = Append(descs, d)
    /\ i' = i + 1
    /\ cat_meta' = d
    /\ j' = 1
    /\ UNCHANGED <<registry, files, pc, develop, build_one, projects, order, raised,
                   lastDumped>>

\* one iteration of  for attr, config in cat_meta.items()  whose request, if any, succeeds
ResolveAttr ==
    /\ pc = "load" /\ j <= Len(cat_meta)
    /\ LET project == order[i]
           attr == cat_meta[j][1]
           config == cat_meta[j][2]
       IN  /\ catalog' = CatalogSet(catalog, project.repo, attr, Resolve(project, config))
           /\ requests' = IF AttrNeedsRequest(config)
                          THEN Append(requests, FileRequest(project, config, TRUE))
                          ELSE requests
    /\ j' = j + 1
    /\ UNCHANGED <<registry, files, pc, develop, build_one, projects, repos, order, i,
                   cat_meta, raised, descs, lastDumped>>

\* utils.get_from_github_api raises: nothing catches it
ResolveAttrFails ==
    /\ pc = "load" /\ j <= Len(cat_meta)
    /\ AttrNeedsRequest(cat_meta[j][2])
    /\ requests' = Append(requests, FileRequest(order[i], cat_meta[j][2], FALSE))
    /\ pc' = "aborted"
    /\ raised' = "RequestError"
    /\ UNCHANGED <<registry, files, develop, build_one, projects, catalog, repos,
                   order, i, cat_meta, j, descs, lastDumped>>

\* the loop over the sorted projects ends
LoadCatalogReturn ==
    /\ AtProjectBoundary /\ i = Len(order)
    /\ pc' = "loaded"
    /\ UNCHANGED <<registry, files, develop, build_one, projects, catalog, repos,
                   order, i, cat_meta, j, raised, requests, descs, lastDumped>>

RECURSIVE ReposOf(_, _)
\* for project in self.projects: self.repos[project["repo"]] = repo_url.format(...)
ReposOf(rps, ps) ==
    IF ps = <<>> THEN rps
    ELSE ReposOf(DictSet(rps, ps[1].repo, RepoUrl(ps[1].org, ps[1].repo)), Tail(ps))

\* load_catalog, replay mode
LoadCatalogReplay ==
    /\ pc = "constructed"
    /\ develop
    /\ IF "catalog.json" \in DOMAIN files
       THEN /\ catalog' = JsonLoads(files["catalog.json"])
            /\ repos' = ReposOf(repos, projects)
            /\ pc' = "loaded"
            /\ raised' = ""
       ELSE /\ pc' = "aborted"
            /\ raised' = "FileNotFoundError"
            /\ UNCHANGED <<catalog, repos>>
    /\ UNCHANGED <<registry, files, develop, build_one, projects, order, i, cat_meta, j,
                   requests, descs, lastDumped>>

WritePages ==
    /\ pc = "loaded"
    /\ files' = WriteFile(files, "index.html", Render(catalog, repos))
    /\ pc' = "rendered"
    /\ UNCHANGED <<registry, develop, build_one, projects, catalog, repos, order, i,
                   cat_meta, j, raised, requests, descs, lastDumped>>

\* dump_catalog(os.path.join(cb.index_dir, "catalog.json"))
DumpCatalog ==
    /\ pc = "rendered"
    /\ files' = WriteFile(files, "catalog.json", JsonDumps(catalog))
    /\ lastDumped' = catalog
    /\ pc' = "done"
    /\ UNCHANGED <<registry, develop, build_one, projects, catalog, repos, order, i,
                   cat_meta, j, raised, requests, descs>>

\* the process of the network invocation ends (normally or by the uncaught
\* exception) and another invocation may follow; the files stay.  A replay
\* invocation is the last one followed.
Exit ==
    /\ pc \in {"done", "aborted"}
    /\ ~develop
    /\ pc' = "idle"
    /\ develop' = FALSE
    /\ build_one' = None
    /\ projects' = <<>>
    /\ catalog' = <<>>
    /\ repos' = <<>>
    /\ order' = <<>>
    /\ i' = 0
    /\ cat_meta' = <<>>
    /\ j' = 1
    /\ raised' = ""
    /\ requests' = <<>>
    /\ descs' = <<>>
    /\ UNCHANGED <<registry, files, lastDumped>>

BuildOneArgs == {None} \cup {Str(r) : r \in Repos}

Next ==
    \/ \E dev \in BOOLEAN, b \in BuildOneArgs : Construct(dev, b)
    \/ LoadCatalogEnter
    \/ FetchDescriptorFails
    \/ \E d \in Descriptors : FetchDescriptorOk(d)
    \/ ResolveAttr
    \/ ResolveAttrFails
    \/ LoadCatalogReturn
    \/ LoadCatalogReplay
    \/ WritePages
    \/ DumpCatalog
    \/ Exit

Spec == Init /\ [][Next]_vars

-----------------------------------------------------------------------------
(* Properties *)

Loaded == pc \in {"loaded", "rendered", "done"}
NetworkLoaded == Loaded /\ ~develop
ReplayLoaded == Loaded /\ develop

Attr(cat, repo, attr) == DictGet(DictGet(cat, repo), attr)
HasAttr(cat, repo, attr) ==
    repo \in KeySet(cat) /\ attr \in KeySet(DictGet(cat, repo))
OwnName(repo) == [value |-> Str(repo), source |-> Str("")]
NullPair == [value |-> None, source |-> None]
\* the position in the iteration order of the last reference to a repository name
LastOf(repo) ==
    CHOOSE k \in 1..Len(order) :
        order[k].repo = repo /\ \A m \in 1..Len(order) : order[m].repo = repo => m <= k
SharedRepo(repo) ==
    \E a, b \in 1..Len(projects) :
        a # b /\ projects[a].repo = repo /\ projects[b].repo = repo

\* C1 as stated: after a completed network-mode load_catalog every project's
\* catalog entry has the name attribute {value: repo, source: ""}, whatever
\* the descriptors hold.
C1_NameIsRepoAlways ==
    NetworkLoaded =>
        \A k \in 1..Len(projects) :
            /\ HasAttr(catalog, projects[k].repo, "name")
            /\ AsMap(Attr(catalog, projects[k].repo, "name")) = OwnName(projects[k].repo)

\* C1 amended: after a completed network-mode load_catalog every project's
\* catalog entry has a name attribute, and it is {value: repo, source: ""}
\* when the descriptor received for the last reference to that repository
\* name has no attribute called "name".
C1_NameIsRepoUnlessDescribed ==
    NetworkLoaded =>
        \A k \in 1..Len(projects) :
            LET repo == projects[k].repo IN
            /\ HasAttr(catalog, repo, "name")
            /\ "name" \notin KeySet(descs[LastOf(repo)])
                => AsMap(Attr(catalog, repo, "name")) = OwnName(repo)

C1_Witness ==
    /\ NetworkLoaded
    /\ Len(projects) = 2
    /\ projects[1].repo # projects[2].repo
    /\ \A k \in 1..2 : Keys(descs[k]) = <<"project_overview">>

\* C2: the constructor's filter: build_one=None leaves the list as given; a
\* name some project of the list has leaves the singleton list of a project
\* of the list with that repo; a name no project has raises
\* ProjectDoesNotExist and the construction is aborted.
C2_BuildOneFilter ==
    pc # "idle" =>
        LET matches == {k \in 1..Len(registry) :
                            build_one # None /\ registry[k].repo = build_one.str}
        IN  /\ build_one = None =>
                projects = registry /\ raised # "ProjectDoesNotExist"
            /\ (build_one # None /\ matches # {}) =>
                /\ Len(projects) = 1
                /\ \E k \in matches : projects[1] = registry[k]
                /\ raised # "ProjectDoesNotExist"
            /\ (build_one # None /\ matches = {}) =>
                pc = "aborted" /\ raised = "ProjectDoesNotExist"

C2_Witness ==
    /\ pc = "constructed"
    /\ build_one = Str("Beta")
    /\ Len(registry) = 2
    /\ registry[1].repo = "alpha"
    /\ projects = <<registry[2]>>

\* the mapping a catalog denotes: project -> attribute -> field -> value
CatalogMap(cat) ==
    [p \in KeySet(cat) |->
        [a \in KeySet(DictGet(cat, p)) |-> AsMap(Attr(cat, p, a))]]

\* C3: a catalog written by dump_catalog and read back by a replay-mode
\* load_catalog on the same index_dir is the same mapping: the same project
\* keys, attribute keys and value/source pairs.
C3_RoundTrip ==
    ReplayLoaded => CatalogMap(catalog) = CatalogMap(lastDumped)

C3_Witness ==
    /\ ReplayLoaded
    /\ Len(catalog) = 2
    /\ \E p \in KeySet(catalog) :
        /\ HasAttr(catalog, p, "project_overview")
        /\ AsMap(Attr(catalog, p, "project_overview")) = NullPair
    /\ \E p \in KeySet(catalog) :
        /\ HasAttr(catalog, p, "project_overview")
        /\ AsMap(Attr(catalog, p, "project_overview")).value = Str("section text")

OwnUrl(project) == "https://github.com/" \o project.org \o "/" \o project.repo

\* C4 as stated: after a replay-mode load_catalog the repo link table has
\* exactly one entry per project reference, each the URL of that reference's
\* own org and repo, and no other entry.
C4_OneLinkPerReference ==
    ReplayLoaded =>
        /\ Len(repos) = Len(projects)
        /\ KeySet(repos) = {projects[k].repo : k \in 1..Len(projects)}
        /\ \A k \in 1..Len(projects) :
            DictGet(repos, projects[k].repo) = OwnUrl(projects[k])

\* C4 amended: after a replay-mode load_catalog the repo link table has
\* exactly one entry per distinct repository name of self.projects and no
\* other entry; the entry of a name is the URL of the last reference with
\* that name, so every reference whose name no later reference shares has
\* its own URL (all of them when the names are distinct).
C4_OneLinkPerRepoName ==
    ReplayLoaded =>
        /\ Len(repos) = Cardinality(KeySet(repos))
        /\ KeySet(repos) = {projects[k].repo : k \in 1..Len(projects)}
        /\ \A k \in 1..Len(projects) :
            (\A m \in (k + 1)..Len(projects) : projects[m].repo # projects[k].repo)
                => DictGet(repos, projects[k].repo) = OwnUrl(projects[k])

C4_Witness ==
    /\ ReplayLoaded
    /\ Len(projects) = 2
    /\ projects[1].repo # projects[2].repo
    /\ projects[1].org # projects[2].org
    /\ Len(repos) = 2

UpperName(repo) == Upper(CodePoints[repo])

\* C5: in network mode the projects are processed, and their keys inserted
\* in the catalog, in case-insensitive order of repository name: a key
\* inserted before another has an upper-cased name less than or equal to it.
C5_KeysInUpperOrder ==
    ~develop =>
        /\ \A a, b \in 1..Len(catalog) :
            a < b => StrLeq(UpperName(catalog[a][1]), UpperName(catalog[b][1]))
        /\ \A a, b \in 1..Len(requests) :
            (a < b /\ requests[a].path = "PSL_catalog.json"
                   /\ requests[b].path = "PSL_catalog.json")
                => StrLeq(UpperName(requests[a].repo), UpperName(requests[b].repo))

C5_Witness ==
    /\ NetworkLoaded
    /\ Len(projects) = 2
    /\ projects[1].repo = "Beta"
    /\ projects[2].repo = "alpha"
    /\ Keys(catalog) = <<"alpha", "Beta">>

Recognized(config) == config.type \in {"github_file", "html"}
FailedRequests == {k \in 1..Len(requests) : ~requests[k].ok}

\* C6: a descriptor entry of unrecognized type is recorded as {value: null,
\* source: null} and raises nothing: the only exception that ends a
\* network-mode load is a failed request, the entry just processed holds the
\* null pair, and a completed load has recorded every entry of every
\* descriptor, the unrecognized ones as the null pair.
C6_UnknownTypeIsNullPair ==
    /\ (pc = "aborted" /\ raised \notin {"ProjectDoesNotExist", "FileNotFoundError"})
        => FailedRequests # {}
    /\ (pc \in {"load", "aborted"} /\ i >= 1 /\ j >= 2 /\ ~Recognized(cat_meta[j - 1][2]))
        => /\ HasAttr(catalog, order[i].repo, cat_meta[j - 1][1])
           /\ AsMap(Attr(catalog, order[i].repo, cat_meta[j - 1][1])) = NullPair
    /\ NetworkLoaded =>
        /\ Len(descs) = Len(order)
        /\ \A k \in 1..Len(descs) : \A m \in 1..Len(descs[k]) :
            /\ HasAttr(catalog, order[k].repo, descs[k][m][1])
            /\ (k = LastOf(order[k].repo) /\ ~Recognized(descs[k][m][2]))
                => AsMap(Attr(catalog, order[k].repo, descs[k][m][1])) = NullPair

C6_Witness ==
    /\ NetworkLoaded
    /\ Len(order) = 2
    /\ order[1].repo # order[2].repo
    /\ Len(descs[1]) = 2
    /\ ~Recognized(descs[1][1][2])
    /\ AsMap(Attr(catalog, order[1].repo, "project_overview")) = NullPair
    /\ AsMap(Attr(catalog, order[1].repo, "name")).value = HtmlConfig.data
    /\ Len(descs[2]) = 1
    /\ descs[2][1][2].type = "github_file"

\* C7: a failed descriptor or file request is not caught: the invocation is
\* aborted by it at once, so it is the last request, no project after the
\* failing one was requested or inserted, and neither index.html nor
\* catalog.json is written.
C7_FailedRequestAborts ==
    FailedRequests # {} =>
        /\ pc = "aborted"
        /\ raised = "RequestError"
        /\ FailedRequests = {Len(requests)}
        /\ "index.html" \notin DOMAIN files
        /\ "catalog.json" \notin DOMAIN files
        /\ i < Len(order) \/ j <= Len(cat_meta)
        /\ LET failing == IF requests[Len(requests)].path = "PSL_catalog.json"
                          THEN i + 1 ELSE i
           IN  /\ KeySet(catalog) \subseteq {order[k].repo : k \in 1..failing}
               /\ Cardinality({k \in 1..Len(requests) :
                                  requests[k].path = "PSL_catalog.json"}) = failing
               /\ Len(descs) = failing - 1 \/ Len(descs) = failing

C7_Witness ==
    /\ FailedRequests # {}
    /\ Len(order) = 2
    /\ order[1].repo # order[2].repo
    /\ i = 1
    /\ requests[Len(requests)].path = "README.md"
    /\ Len(catalog) = 1

DescriptorRequests == {k \in 1..Len(requests) : requests[k].path = "PSL_catalog.json"}
GithubFileEntries ==
    {km \in (1..Len(descs)) \X (1..Len(AttrNames)) :
        km[2] <= Len(descs[km[1]]) /\ descs[km[1]][km[2]][2].type = "github_file"}

\* C8: a completed network-mode load_catalog has issued one descriptor
\* request per project of self.projects and one further request per
\* github_file entry of the descriptors, none for the other entries; a
\* replay-mode builder issues no request in any state.
C8_RequestCount ==
    /\ develop => requests = <<>>
    /\ NetworkLoaded =>
        /\ Cardinality(DescriptorRequests) = Len(projects)
        /\ \A p \in ProjectRefs :
            Cardinality({k \in DescriptorRequests :
                            requests[k].org = p.org /\ requests[k].repo = p.repo
                                /\ requests[k].branch = p.branch})
              = Cardinality({k \in 1..Len(projects) : projects[k] = p})
        /\ Len(requests) - Cardinality(DescriptorRequests) = Cardinality(GithubFileEntries)
        /\ \A k \in 1..Len(requests) :
            k \notin DescriptorRequests => requests[k].path = GithubFileConfig.source

C8_Witness ==
    /\ NetworkLoaded
    /\ Len(projects) = 2
    /\ Cardinality(GithubFileEntries) = 1
    /\ \E k \in 1..2 : \E m \in 1..Len(descs[k]) : descs[k][m][2].type = "html"
    /\ \E k \in 1..2 : \E m \in 1..Len(descs[k]) : descs[k][m][2].type = "pdf"

\* C9: after load_catalog completes, in either mode, every attribute stored
\* in the catalog is a dict with exactly the two keys value and source.
C9_TwoFields ==
    Loaded =>
        \A p \in 1..Len(catalog) : \A a \in 1..Len(catalog[p][2]) :
            LET res == catalog[p][2][a][2]
            IN  Len(res) = 2 /\ KeySet(res) = {"value", "source"}

C9_Witness ==
    /\ ReplayLoaded
    /\ Len(catalog) = 2
    /\ \E p \in KeySet(catalog) :
        /\ HasAttr(catalog, p, "project_overview")
        /\ AsMap(Attr(catalog, p, "project_overview")) = NullPair
        /\ AsMap(Attr(catalog, p, "name")) = OwnName(p)

\* every entry of the catalog is still there after the step
EntriesKept ==
    \A p \in KeySet(catalog) : \A a \in KeySet(DictGet(catalog, p)) :
        HasAttr(catalog', p, a)
\* the entries whose record the step replaces by a different one
Overwritten ==
    {pa \in KeySet(catalog) \X {AttrNames[k] : k \in 1..Len(AttrNames)} :
        /\ HasAttr(catalog, pa[1], pa[2])
        /\ HasAttr(catalog', pa[1], pa[2])
        /\ Attr(catalog', pa[1], pa[2]) # Attr(catalog, pa[1], pa[2])}
FrozenAfterLoad ==
    (pc \in {"loaded", "rendered"} /\ pc' # pc) => UNCHANGED <<catalog, repos>>

\* C10 as stated: during a network-mode load_catalog an entry of the catalog
\* is never removed nor replaced by a different record, for any project
\* list, and write_pages and dump_catalog leave catalog and repos unchanged.
C10_EntriesNeverChange ==
    [][/\ pc = "load" => (EntriesKept /\ Overwritten = {})
       /\ FrozenAfterLoad]_vars

\* C10 amended: during a network-mode load_catalog an entry of the catalog
\* is never removed; its record is replaced by a different one only for the
\* attribute "name" or for a repository name that two references of
\* self.projects share; write_pages and dump_catalog leave catalog and repos
\* unchanged.
C10_EntriesKeptOverwrittenOnlyByNameOrSharedRepo ==
    [][/\ pc = "load" =>
            /\ EntriesKept
            /\ \A pa \in Overwritten : pa[2] = "name" \/ SharedRepo(pa[1])
       /\ FrozenAfterLoad]_vars

C10_Witness ==
    /\ pc = "done"
    /\ ~develop
    /\ Len(catalog) = 2
    /\ \A p \in 1..2 : Keys(catalog[p][2]) = <<"name", "project_overview">>
    /\ \A k \in 1..2 : Keys(descs[k]) = <<"project_overview">>
====
